---- MODULE Spec2Model ----
(***************************************************************************)
(* Model of the arXiv -> Slack notification bot.                           *)
(*                                                                         *)
(*   bot.py                       the single-file pipeline                 *)
(*   main.py + src/services/*.py  the same pipeline split into services    *)
(*                                                                         *)
(* Texts are sequences of tokens; every regular expression of the source   *)
(* is modelled by an operator that scans the token sequence the way        *)
(* Python's re module scans the string.                                    *)
(***************************************************************************)
EXTENDS Integers, Sequences, FiniteSets, TLC

VARIABLES
    entry,        \* which program runs, see Entries
    pc,           \* position of the current run
    run,          \* number of the current run (1..MaxRuns)
    tags,         \* Config.tags / TAGS
    tagPriority,  \* Config.tag_priority / TAG_PRIORITY
    source,       \* the paper index: tag -> "raise" or the list of entries it answers
    papersByTag,  \* result of fetch_arxiv_papers in this run (None before)
    queried,      \* tags for which a query was issued in this run, in order
    best,         \* result of select_best_paper in this run (None before / none)
    channel,      \* the chat channel: sequence of messages, oldest first
    announced,    \* result of the deduplicator in this run
    env,          \* environment of the process: credentials, channel, provider
    configFile,   \* config.json: [exists, tags]
    calls,        \* chat and backend calls of this run, in order
    outcome,      \* how the current run ended ("" while running)
    history,      \* outcome of every finished run, in order
    fn,           \* pure-function harness: name of the function applied ("" before)
    arg,          \* pure-function harness: its input
    ret           \* pure-function harness: its result

pipeVars == <<entry, pc, run, tags, tagPriority, source, papersByTag, queried,
              best, channel, announced, env, configFile, calls, outcome, history>>
funVars == <<fn, arg, ret>>
vars == <<entry, pc, run, tags, tagPriority, source, papersByTag, queried,
          best, channel, announced, env, configFile, calls, outcome, history, fn, arg, ret>>

(***************************************************************************)
(* Bounds of the model.                                                    *)
(***************************************************************************)
MaxTags == 2      \* length of the configured tag list
MaxRuns == 2      \* successive runs of the pipeline
MaxPrio == 2      \* length of the priority list given to select_best_paper
MaxPapers == 2    \* candidates per tag given to select_best_paper

Min(a, b) == IF a < b THEN a ELSE b

RECURSIVE SeqsUpTo(_, _)
SeqsUpTo(S, n) ==
    IF n = 0 THEN {<<>>}
    ELSE LET shorter == SeqsUpTo(S, n - 1)
         IN  shorter \cup {Append(s, x) : s \in {t \in shorter : Len(t) = n - 1}, x \in S}

Range(s) == {s[i] : i \in 1..Len(s)}

(***************************************************************************)
(* Texts.  A text is a sequence of tokens; a token stands for one          *)
(* character or for one fixed literal of the source:                       *)
(*   "x"        a letter                  "1" "2" "4"   digits             *)
(*   "sup1" "sup2" "sup4"  the superscripts U+00B9, U+00B2, U+2074         *)
(*   "^" "$" "{" "}" "-"   themselves     "BS"   a backslash               *)
(*   "mathbf"   the letters m,a,t,h,b,f   "SP" "NL"   space, newline       *)
(*   "W"        a word of the prose (letters only)                         *)
(*   "GT"       the character >          "URL:"   the literal URL:         *)
(*   "MARK"     the announcement marker of the parent message              *)
(*   "1." "2." "3."  the section numbers, "T:" "S:" "Q:" the section       *)
(*   names of the translation prompt                                       *)
(*   "http://..." tokens   an http(s) URL                                  *)
(***************************************************************************)
Digits == {"1", "2", "4"}
Superscripts == {"sup1", "sup2", "sup4"}

\* \d of Python's re: decimal digits only
IsDigit(c) == c \in Digits

\* \w of Python's re on str: letters, digits, underscore and every character
\* for which str.isalnum() holds, the superscript digits among them
IsWord(c) == c \in {"x", "W", "mathbf"} \cup Digits \cup Superscripts

\* \s
IsSpace(c) == c \in {"SP", "NL"}

\* superscript_map of _get_superscript
superscript_map(d) ==
    CASE d = "1" -> "sup1"
      [] d = "2" -> "sup2"
      [] d = "4" -> "sup4"
      [] OTHER -> d

_get_superscript(num_str) == [i \in 1..Len(num_str) |-> superscript_map(num_str[i])]

\* length of the longest prefix of t[i..] whose tokens all satisfy the class
InClass(cls, c) ==
    CASE cls = "w" -> IsWord(c)
      [] cls = "d" -> IsDigit(c)
      [] cls = "dollar" -> c # "NL" /\ c # "$"
      [] cls = "url" -> ~IsSpace(c) /\ c # "GT"
      [] cls = "line" -> c # "NL"
      [] cls = "s" -> IsSpace(c)

RECURSIVE RunLen(_, _, _)
RunLen(t, i, cls) ==
    IF i <= Len(t) /\ InClass(cls, t[i]) THEN 1 + RunLen(t, i + 1, cls) ELSE 0

At(t, i) == IF i >= 1 /\ i <= Len(t) THEN t[i] ELSE "EOT"

\* re.sub(r'(\w)\^d', r'\1<sup d>', text) for one digit d
RECURSIVE SubCaret(_, _, _)
SubCaret(t, i, d) ==
    IF i > Len(t) THEN <<>>
    ELSE IF IsWord(t[i]) /\ At(t, i + 1) = "^" /\ At(t, i + 2) = d
         THEN <<t[i], superscript_map(d)>> \o SubCaret(t, i + 3, d)
         ELSE <<t[i]>> \o SubCaret(t, i + 1, d)

\* the match of  (\w+)\}\^(\d+)  or  (\w+)\^(\d+)  at position i:
\* <<base, digits, length>> or <<>> when there is none
BaseExp(t, i, braced) ==
    LET w == RunLen(t, i, "w")
        c == IF braced THEN i + w + 1 ELSE i + w
        n == RunLen(t, c + 1, "d")
    IN  IF w >= 1 /\ (braced => At(t, i + w) = "}") /\ At(t, c) = "^" /\ n >= 1
        THEN <<SubSeq(t, i, i + w - 1), SubSeq(t, c + 1, c + n), (c + n) - i + 1>>
        ELSE <<>>

\* re.sub(r'\\mathbf\{(\w+)\}\^(\d+)', base + superscript, text)
RECURSIVE SubMathbf(_, _)
SubMathbf(t, i) ==
    IF i > Len(t) THEN <<>>
    ELSE LET m == IF t[i] = "BS" /\ At(t, i + 1) = "mathbf" /\ At(t, i + 2) = "{"
                  THEN BaseExp(t, i + 3, TRUE) ELSE <<>>
         IN  IF m # <<>>
             THEN m[1] \o _get_superscript(m[2]) \o SubMathbf(t, i + 3 + m[3])
             ELSE <<t[i]>> \o SubMathbf(t, i + 1)

\* re.sub(r'\$\{(\w+)\}\^(\d+)\$', ...) (braced) and re.sub(r'\$(\w+)\^(\d+)\$', ...)
RECURSIVE SubDollarExp(_, _, _)
SubDollarExp(t, i, braced) ==
    IF i > Len(t) THEN <<>>
    ELSE LET s == IF braced THEN i + 2 ELSE i + 1
             m == IF t[i] = "$" /\ (braced => At(t, i + 1) = "{")
                  THEN BaseExp(t, s, braced) ELSE <<>>
         IN  IF m # <<>> /\ At(t, s + m[3]) = "$"
             THEN m[1] \o _get_superscript(m[2]) \o SubDollarExp(t, s + m[3] + 1, braced)
             ELSE <<t[i]>> \o SubDollarExp(t, i + 1, braced)

\* re.sub(r'([A-Za-z]+)-([A-Za-z]+)', r'\1-\2', text): every match is replaced
\* by its own text
SubHyphen(t) == t

\* re.sub(r'\$(.*?)\$', r'\1', text): the nearest closing $ on the same line
RECURSIVE SubDollar(_, _)
SubDollar(t, i) ==
    IF i > Len(t) THEN <<>>
    ELSE LET n == RunLen(t, i + 1, "dollar")
         IN  IF t[i] = "$" /\ At(t, i + 1 + n) = "$"
             THEN SubSeq(t, i + 1, i + n) \o SubDollar(t, i + n + 2)
             ELSE <<t[i]>> \o SubDollar(t, i + 1)

format_latex_for_slack(text) ==
    IF text = <<>> THEN <<>>
    ELSE LET t1 == SubCaret(text, 1, "3")
             t2 == SubCaret(t1, 1, "2")
             t3 == SubCaret(t2, 1, "1")
             t4 == SubMathbf(t3, 1)
             t5 == SubDollarExp(t4, 1, TRUE)
             t6 == SubDollarExp(t5, 1, FALSE)
             t7 == SubHyphen(t6)
         IN  SubDollar(t7, 1)

(***************************************************************************)
(* The translation provider: response parsing.                             *)
(***************************************************************************)
\* str.strip()
RECURSIVE LStrip(_)
LStrip(t) == IF t # <<>> /\ IsSpace(Head(t)) THEN LStrip(Tail(t)) ELSE t

RECURSIVE RStrip(_)
RStrip(t) == IF t # <<>> /\ IsSpace(t[Len(t)]) THEN RStrip(SubSeq(t, 1, Len(t) - 1)) ELSE t

strip(t) == RStrip(LStrip(t))

\* the element of a set of one element: a value computed once and named
Only(S) == CHOOSE x \in S : TRUE

SetMax(S) == CHOOSE x \in S : \A y \in S : y <= x
SetMin(S) == CHOOSE x \in S : \A y \in S : x <= y

\* the lookahead (?=\n\n|\n<next>) at position p
LookAhead(t, p, next) == At(t, p) = "NL" /\ (At(t, p + 1) = "NL" \/ At(t, p + 1) = next)

\* positions where  <num>\s*<name>  matches: the index of <name> for each start
HeaderAt(t, i, num, name) ==
    IF At(t, i) = num /\ At(t, i + 1 + RunLen(t, i + 1, "s")) = name
    THEN i + 1 + RunLen(t, i + 1, "s") ELSE 0

\* re.search(r'<num>\s*<name>\s*(.+?)(?=\n\n|\n<next>)', result, re.DOTALL):
\* <<group(1)>> for a match, <<>> for None.  \s* gives up whitespace from the
\* right, .+? grows from the left, the leftmost start wins.
SectionLazyAt(t, h, next) ==
    LET r == RunLen(t, h + 1, "s")
        Ends(k) == {e \in (h + 1 + k)..Len(t) : LookAhead(t, e + 1, next)}
        Ks == {k \in 0..r : Ends(k) # {}}
    IN  IF Ks = {} THEN <<>>
        ELSE LET k == SetMax(Ks) IN <<SubSeq(t, h + 1 + k, SetMin(Ends(k)))>>

\* re.search(r'<num>\s*<name>\s*(.+)', result, re.DOTALL)
SectionGreedyAt(t, h) ==
    LET r == RunLen(t, h + 1, "s")
    IN  IF h + 1 + r <= Len(t) THEN <<SubSeq(t, h + 1 + r, Len(t))>>
        ELSE IF r >= 1 THEN <<SubSeq(t, h + r, Len(t))>>
        ELSE <<>>

SectionSearch(t, num, name, next) ==
    LET Match(i) == IF HeaderAt(t, i, num, name) = 0 THEN <<>>
                    ELSE IF next = "EOT" THEN SectionGreedyAt(t, HeaderAt(t, i, num, name))
                    ELSE SectionLazyAt(t, HeaderAt(t, i, num, name), next)
        Starts == {i \in 1..Len(t) : Match(i) # <<>>}
    IN  IF Starts = {} THEN <<>> ELSE Match(SetMin(Starts))

SummaryFallback == <<"FAIL_SUMMARY">>   \* "要約の生成に失敗しました。"
QaFallback == <<"FAIL_QA">>             \* "重要なQ&Aの生成に失敗しました。"

_parse_ai_response(result, paper) ==
    LET title_match == SectionSearch(result, "1.", "T:", "2.")
        summary_match == SectionSearch(result, "2.", "S:", "3.")
        qa_match == SectionSearch(result, "3.", "Q:", "EOT")
    IN  [translated_title |-> IF title_match # <<>> THEN strip(title_match[1]) ELSE paper.title,
         translated_summary |-> IF summary_match # <<>> THEN strip(summary_match[1]) ELSE SummaryFallback,
         key_qa |-> IF qa_match # <<>> THEN strip(qa_match[1]) ELSE QaFallback]

(***************************************************************************)
(* The translation provider: dispatch and failure handling.                *)
(* A translation is a record of three texts; Missing marks a field that    *)
(* was never set (None / absent key), and raised tells that the call       *)
(* raised instead of returning.                                            *)
(***************************************************************************)
Missing == <<"MISSING">>
ErrorSummary == <<"ERR_SUMMARY">>       \* "翻訳・要約中にエラーが発生しました: " + str(e)
QaUnavailable == <<"QA_UNAVAILABLE">>   \* "重要なQ&Aは利用できません。"
NotAvailable == <<"NOT_AVAILABLE">>     \* "AI translation service is not available."
KeyNotSet == <<"KEY_NOT_SET">>          \* "... API key is not set. ..."

\* paper["summary"][:500]
SummaryLimit == 500

Returned(tr) == [raised |-> FALSE, translated_title |-> tr.translated_title,
                 translated_summary |-> tr.translated_summary, key_qa |-> tr.key_qa]
Raised == [raised |-> TRUE, translated_title |-> Missing,
           translated_summary |-> Missing, key_qa |-> Missing]

BackendRaises == <<"RAISE">>

\* the except branch of both backends
BackendFailure(paper) ==
    [translated_title |-> paper.title, translated_summary |-> ErrorSummary, key_qa |-> QaUnavailable]

\* the backend without its try/except: a failure of the call leaves it
_translate_and_summarize_paper_backend_NoTry(paper, key, backend) ==
    IF ~key
    THEN Returned([translated_title |-> paper.title, translated_summary |-> KeyNotSet, key_qa |-> KeyNotSet])
    ELSE IF backend = BackendRaises
         THEN Raised
         ELSE Returned(_parse_ai_response(backend, paper))

\* _translate_and_summarize_paper_gemini / _openai; backend is BackendRaises
\* when the call to the model (or reading its answer) raises, the answer text
\* otherwise
_translate_and_summarize_paper_backend(paper, key, backend) ==
    IF ~key
    THEN Returned([translated_title |-> paper.title, translated_summary |-> KeyNotSet, key_qa |-> KeyNotSet])
    ELSE IF backend = BackendRaises
         THEN Returned(BackendFailure(paper))
         ELSE Returned(_parse_ai_response(backend, paper))

\* the branch taken by translate_and_summarize_paper
Provider(cfg) ==
    IF cfg.ai_service = "gemini" /\ cfg.gemini_api_key THEN "gemini"
    ELSE IF cfg.ai_service = "openai" /\ cfg.openai_api_key THEN "openai"
    ELSE "disabled"

translate_and_summarize_paper(paper, cfg, backend) ==
    IF Provider(cfg) = "gemini"
    THEN _translate_and_summarize_paper_backend(paper, cfg.gemini_api_key, backend)
    ELSE IF Provider(cfg) = "openai"
    THEN _translate_and_summarize_paper_backend(paper, cfg.openai_api_key, backend)
    ELSE Returned([translated_title |-> paper.title,
                   translated_summary |-> SubSeq(paper.summary, 1, Min(Len(paper.summary), SummaryLimit)) \o <<"...">>,
                   key_qa |-> NotAvailable])

(***************************************************************************)
(* The chat channel.  A message is [ts, text, blocks, thread_ts]; ts is    *)
(* the timestamp as a number, thread_ts = 0 stands for "no thread_ts".     *)
(***************************************************************************)
\* conversations_history(limit=20), conversations_replies(limit=10)
HistoryLimit == 20
RepliesLimit == 10

Reverse(s) == [i \in 1..Len(s) |-> s[Len(s) + 1 - i]]

RECURSIVE Filter(_, _, _)
Filter(s, kind, x) ==
    IF s = <<>> THEN <<>>
    ELSE LET m == Head(s)
             keep == CASE kind = "thread" -> m.ts = x \/ m.thread_ts = x
                       [] kind = "parent" -> ("MARK" \in Range(m.text))
                                             /\ (m.thread_ts = 0 \/ m.thread_ts = m.ts)
         IN  (IF keep THEN <<m>> ELSE <<>>) \o Filter(Tail(s), kind, x)

\* the answer of conversations.history: the most recent messages, newest first
conversations_history(ch, limit) == SubSeq(Reverse(ch), 1, Min(Len(ch), limit))

\* the answer of conversations.replies: the parent and its replies, oldest first
conversations_replies(ch, ts, limit) ==
    LET thread == Filter(ch, "thread", ts)
    IN  SubSeq(thread, 1, Min(Len(thread), limit))

\* chat.postMessage: the message is appended with the next timestamp; a reply
\* makes its parent carry thread_ts = ts
NextTs(ch) == IF ch = <<>> THEN 1 ELSE ch[Len(ch)].ts + 1

chat_postMessage(ch, text, blocks, thread_ts) ==
    LET marked == [i \in 1..Len(ch) |->
                     IF thread_ts # 0 /\ ch[i].ts = thread_ts
                     THEN [ch[i] EXCEPT !.thread_ts = thread_ts] ELSE ch[i]]
    IN  Append(marked, [ts |-> NextTs(ch), text |-> text, blocks |-> blocks, thread_ts |-> thread_ts])

(***************************************************************************)
(* The deduplicator.                                                       *)
(***************************************************************************)
BareUrl == "http://host"
PaperUrls == {"http://arxiv.org/abs/1", "http://arxiv.org/abs/2", "http://arxiv.org/abs/3"}
IsUrl(c) == c \in PaperUrls \cup {BareUrl}
\* http[s]?://(?:arxiv\.org|[a-zA-Z0-9.-]+)/[^\s">]+ needs a path after the host
HasPath(c) == c \in PaperUrls

\* re.search(r"URL:.*?http[s]?://(?:arxiv\.org|[a-zA-Z0-9.-]+)/[^\s\">]+", text):
\* <<first, last>> positions of the match, <<>> for None
UrlLabelSearch(text) ==
    LET Target(i) == {j \in (i + 1)..Len(text) :
                        HasPath(text[j]) /\ \A k \in (i + 1)..(j - 1) : text[k] # "NL"}
        Starts == {i \in 1..Len(text) : text[i] = "URL:" /\ Target(i) # {}}
    IN  IF Starts = {} THEN <<>>
        ELSE LET i == SetMin(Starts)
                 j == SetMin(Target(i))
             IN  <<i, j + RunLen(text, j + 1, "url")>>

\* the URL that ends the match instead of the first one of the match
FirstUrl_Last(url_text) ==
    LET b == SetMax({i \in 1..Len(url_text) : HasPath(url_text[i])})
    IN  SubSeq(url_text, b, b + RunLen(url_text, b + 1, "url"))

\* re.search(r'http[s]?://[^\s">]+', url_text).group(0)
FirstUrl(url_text) ==
    LET b == SetMin({i \in 1..Len(url_text) : IsUrl(url_text[i])})
    IN  SubSeq(url_text, b, b + RunLen(url_text, b + 1, "url"))

\* the URL a reply text contributes: {url} or {}
ExtractUrl(text) ==
    LET match == UrlLabelSearch(text)
    IN  IF match = <<>> THEN {} ELSE {FirstUrl(SubSeq(text, match[1], match[2]))}

\* the sort without reverse=True: the oldest announcement
LatestParent_Oldest(parent_messages) ==
    CHOOSE m \in Range(parent_messages) : \A o \in Range(parent_messages) : m.ts <= o.ts

\* parent_messages.sort(key=lambda m: float(m['ts']), reverse=True); [0]
LatestParent(parent_messages) ==
    CHOOSE m \in Range(parent_messages) : \A o \in Range(parent_messages) : o.ts <= m.ts

\* _get_latest_parent_paper_urls / get_latest_parent_paper_urls.
\* hist and repl are the outcomes of the two reads: "ok", "api_error"
\* (SlackApiError) or "net_error" (any other exception of the HTTP layer).
\* The result tells the set returned, whether an exception left the function,
\* and the reads that were issued.
get_latest_parent_paper_urls(ch, hist, repl) ==
    LET messages == conversations_history(ch, HistoryLimit)
        parent_messages == Filter(messages, "parent", 0)
        target_message == LatestParent(parent_messages)
        replies == conversations_replies(ch, target_message.ts, RepliesLimit)
        histCall == [op |-> "history", ts |-> 0, res |-> hist, text |-> <<>>, rts |-> 0]
        replCall == [op |-> "replies", ts |-> target_message.ts, res |-> repl, text |-> <<>>, rts |-> 0]
    IN  IF hist # "ok"
        THEN [urls |-> {}, raised |-> hist # "api_error", reads |-> <<histCall>>]
        ELSE IF parent_messages = <<>>
        THEN [urls |-> {}, raised |-> FALSE, reads |-> <<histCall>>]
        ELSE IF repl # "ok"
        THEN [urls |-> {}, raised |-> repl # "api_error", reads |-> <<histCall, replCall>>]
        ELSE [urls |-> UNION {ExtractUrl(replies[i].text) :
                                i \in {k \in 1..Len(replies) : replies[k].ts # target_message.ts}},
              raised |-> FALSE, reads |-> <<histCall, replCall>>]

(***************************************************************************)
(* Tags, the paper index and paper records.                                *)
(***************************************************************************)
Tags == {"cs.AI", "cs.LG", "cs.CL"}

\* the default of _load_config / load_config
DefaultTags == <<"cs.AI", "cs.LG", "cs.CL">>

UrlOf(t) ==
    CASE t = "cs.AI" -> "http://arxiv.org/abs/1"
      [] t = "cs.LG" -> "http://arxiv.org/abs/2"
      [] t = "cs.CL" -> "http://arxiv.org/abs/3"

\* what the index answers for one query (max_results=1): the query raises,
\* or it returns no entry or the latest entry of the category
Entry(t) == [url |-> UrlOf(t), title |-> <<"W">>, summary |-> <<"W", "SP", "W">>]
AnswerKinds == {"raise", "empty", "one"}
Sources == [Tags -> AnswerKinds]
Results(src, t) == IF src[t] = "one" THEN <<Entry(t)>> ELSE <<>>

\* paper_info built from one entry of the answer
paper_info(e, tag) == [url |-> e.url, title |-> e.title, summary |-> e.summary, tag |-> tag]

NoPapers == [t \in {} |-> <<>>]

\* all_papers[tag] = value
SetKey(d, tag, value) == [t \in DOMAIN d \cup {tag} |-> IF t = tag THEN value ELSE d[t]]

\* FetchOne without the except branch: the failure leaves the loop
FetchOne_NoExcept(acc, tag, src) ==
    IF src[tag] = "raise"
    THEN [all_papers |-> acc.all_papers, queried |-> Append(acc.queried, tag), raised |-> TRUE]
    ELSE [all_papers |-> SetKey(acc.all_papers, tag,
                                [i \in 1..Len(Results(src, tag)) |->
                                   paper_info(Results(src, tag)[i], tag)]),
          queried |-> Append(acc.queried, tag),
          raised |-> FALSE]

\* one turn of the loop of fetch_arxiv_papers: the try block and its except
FetchOne(acc, tag, src) ==
    [all_papers |-> SetKey(acc.all_papers, tag,
                           IF src[tag] = "raise" THEN <<>>
                           ELSE [i \in 1..Len(Results(src, tag)) |->
                                   paper_info(Results(src, tag)[i], tag)]),
     queried |-> Append(acc.queried, tag),
     raised |-> FALSE]

\* fetch_arxiv_papers: [all_papers, queried, raised]
RECURSIVE FetchLoop(_, _, _)
FetchLoop(acc, ts, src) ==
    IF ts = <<>> \/ acc.raised THEN acc
    ELSE FetchLoop(FetchOne(acc, Head(ts), src), Tail(ts), src)

fetch_arxiv_papers(ts, src) ==
    FetchLoop([all_papers |-> NoPapers, queried |-> <<>>, raised |-> FALSE], ts, src)

\* select_best_paper walking the keys of the mapping instead of the priority list
select_best_paper_AnyTag(papers_by_tag, tag_priority) ==
    LET full == {i \in 1..Len(DefaultTags) :
                   DefaultTags[i] \in DOMAIN papers_by_tag /\ papers_by_tag[DefaultTags[i]] # <<>>}
    IN  IF full = {} THEN <<>> ELSE <<papers_by_tag[DefaultTags[SetMin(full)]][1]>>

\* select_best_paper: <<paper>> or <<>> for None
RECURSIVE select_best_paper(_, _)
select_best_paper(papers_by_tag, tag_priority) ==
    IF tag_priority = <<>> THEN <<>>
    ELSE LET tag == Head(tag_priority)
         IN  IF tag \in DOMAIN papers_by_tag /\ papers_by_tag[tag] # <<>>
             THEN <<papers_by_tag[tag][1]>>
             ELSE select_best_paper(papers_by_tag, Tail(tag_priority))

\* has_papers testing the keys of the mapping instead of the lists
has_papers_AnyKey(papers_by_tag) == DOMAIN papers_by_tag # {}

\* any(len(papers) > 0 for papers in papers_by_tag.values())
has_papers(papers_by_tag) == \E t \in DOMAIN papers_by_tag : Len(papers_by_tag[t]) > 0

(***************************************************************************)
(* The pipeline.                                                           *)
(*   "main"      main.py: Config() of src/config/settings.py, then the     *)
(*               three services, then the workflow                         *)
(*   "services"  the workflow of main.py over services built from a        *)
(*               configuration object that also carries the attributes     *)
(*               AIService.__init__ reads (ai_service, openai_api_key)     *)
(*   "bot"       bot.py: module start-up, then notify_papers_to_slack()    *)
(***************************************************************************)
Entries == {"main", "services", "bot"}

\* attributes set by Config.__init__ and the ones AIService.__init__ reads
ConfigAttributes == {"CONFIG_FILE", "tags", "tag_priority", "slack_token",
                     "gemini_api_key", "slack_channel_id", "enable_notion"}
AIServiceReads == {"ai_service", "openai_api_key", "gemini_api_key"}
AttributesOf(e) == IF e = "main" THEN ConfigAttributes ELSE ConfigAttributes \cup AIServiceReads

Envs ==
    {[slack_token |-> TRUE, slack_channel_id |-> TRUE, ai_service |-> "gemini",
      gemini_api_key |-> TRUE, openai_api_key |-> FALSE],
     [slack_token |-> TRUE, slack_channel_id |-> TRUE, ai_service |-> "gemini",
      gemini_api_key |-> FALSE, openai_api_key |-> FALSE],
     [slack_token |-> FALSE, slack_channel_id |-> TRUE, ai_service |-> "gemini",
      gemini_api_key |-> TRUE, openai_api_key |-> FALSE],
     [slack_token |-> TRUE, slack_channel_id |-> FALSE, ai_service |-> "gemini",
      gemini_api_key |-> TRUE, openai_api_key |-> FALSE]}

ConfigFiles == {[exists |-> FALSE, tags |-> <<>>]}
               \cup {[exists |-> TRUE, tags |-> l] : l \in SeqsUpTo(Tags, MaxTags)}

\* _load_config / load_config
LoadTags(file) == IF file.exists THEN file.tags ELSE DefaultTags

\* channel contents met at start-up
Msg(ts, text, thread_ts) == [ts |-> ts, text |-> text, blocks |-> <<>>, thread_ts |-> thread_ts]
InitChannels ==
    {<<>>,
     \* an announcement thread whose reply carries the label form "URL: <url>"
     <<Msg(1, <<"MARK", "SP", "W">>, 1),
       Msg(2, <<"W", "SP", "URL:", "SP", "http://arxiv.org/abs/1">>, 1)>>,
     \* an older thread about paper 2, a newer one about paper 3, chatter after it
     <<Msg(1, <<"MARK", "SP", "W">>, 1),
       Msg(2, <<"URL:", "SP", "http://arxiv.org/abs/2">>, 1),
       Msg(3, <<"MARK", "SP", "W">>, 0),
       Msg(4, <<"URL:", "SP", "http://arxiv.org/abs/3">>, 3),
       Msg(5, <<"MARK", "SP", "URL:", "SP", "http://arxiv.org/abs/1">>, 3),
       Msg(6, <<"W">>, 0)>>}

\* answers of the translation backend
FullResponse == <<"1.", "SP", "T:", "SP", "W", "NL", "NL",
                  "2.", "SP", "S:", "SP", "W", "NL", "NL",
                  "3.", "SP", "Q:", "NL", "W">>
NoQaResponse == <<"1.", "SP", "T:", "SP", "W", "NL", "NL",
                  "2.", "SP", "S:", "SP", "W", "NL", "NL">>
Backends == {BackendRaises, FullResponse, NoQaResponse}

ChatResults == {"ok", "api_error", "net_error"}

ParentText == <<"MARK", "SP", "-", "SP", "DATE">>

Call(op, ts, res, text, rts) == [op |-> op, ts |-> ts, res |-> res, text |-> text, rts |-> rts]

\* the blocks of _send_message_to_slack / send_message_to_slack
TranslatedBlocks(paper, tr) ==
    <<"L_TITLE", "NL">> \o format_latex_for_slack(tr.translated_title)
    \o <<"NL", "NL", "L_ORIGINAL", "NL">> \o format_latex_for_slack(paper.title)
    \o <<"NL", "NL", "L_DATE", "NL", "DATE", "NL", "NL", "L_URL", "NL", paper.url>>
    \o <<"NL", "NL", "L_POINTS", "NL">> \o format_latex_for_slack(tr.key_qa)
    \o <<"NL", "NL", "L_SUMMARY", "NL">> \o format_latex_for_slack(tr.translated_summary)

OriginalBlocks(paper) ==
    <<"L_TITLE", "NL">> \o format_latex_for_slack(paper.title)
    \o <<"NL", "NL", "L_DATE", "NL", "DATE", "NL", "NL", "L_URL", "NL", paper.url>>
    \o <<"NL", "NL", "L_SUMMARY", "NL">> \o format_latex_for_slack(paper.summary)

\* the message _send_message_to_slack prepares: [text, blocks]
PrepareMessage(paper, tr) ==
    IF tr.raised
    THEN [text |-> paper.title \o <<"SP", "-", "SP", paper.url>>, blocks |-> OriginalBlocks(paper)]
    ELSE [text |-> tr.translated_title \o <<"SP", "-", "SP", paper.url>>,
          blocks |-> TranslatedBlocks(paper, tr)]

Init ==
    /\ entry \in Entries
    /\ env \in Envs
    /\ configFile \in ConfigFiles
    /\ source \in Sources
    \* the answer for a tag that is never queried is not an input of the run
    /\ \A t \in Tags \ Range(LoadTags(configFile)) : source[t] = "empty"
    /\ channel \in InitChannels
    /\ pc = "start"
    /\ run = 1
    /\ tags = <<>>
    /\ tagPriority = <<>>
    /\ papersByTag = NoPapers
    /\ queried = <<>>
    /\ best = <<>>
    /\ announced = {}
    /\ calls = <<>>
    /\ outcome = ""
    /\ history = <<>>
    /\ fn = ""
    /\ arg = <<>>
    /\ ret = <<>>

Finish(o) == /\ outcome' = o
             /\ pc' = "done"

\* Config() / the module level of bot.py, and the construction of the services
Startup ==
    /\ pc = "start"
    /\ tags' = LoadTags(configFile)
    /\ tagPriority' = LoadTags(configFile)
    /\ IF ~env.slack_token
       THEN Finish("raised_startup")                \* ValueError
       ELSE IF ~(AIServiceReads \subseteq AttributesOf(entry))
       THEN Finish("raised_startup")                \* AttributeError in AIService.__init__
       ELSE IF entry = "bot" /\ ~env.slack_channel_id
       THEN Finish("no_channel")
       ELSE pc' = "fetch" /\ outcome' = outcome
    /\ UNCHANGED <<entry, run, source, papersByTag, queried, best, channel, announced,
                   env, configFile, calls, history, fn, arg, ret>>

\* fetch_arxiv_papers and the has_papers test after it
Fetch ==
    /\ pc = "fetch"
    /\ LET f == fetch_arxiv_papers(tags, source)
       IN  /\ papersByTag' = f.all_papers
           /\ queried' = f.queried
           /\ IF f.raised THEN Finish("raised_fetch")
              ELSE IF ~has_papers(f.all_papers) THEN Finish("no_papers")
              ELSE pc' = (IF entry = "bot" THEN "dedup" ELSE "select") /\ outcome' = outcome
    /\ UNCHANGED <<entry, run, tags, tagPriority, source, best, channel, announced,
                   env, configFile, calls, history, fn, arg, ret>>

\* the duplicate test left out
AlreadyNotified_Never(b, urls) == FALSE

\* paper["url"] in latest_paper_urls
AlreadyNotified(b, urls) == b # <<>> /\ <<b[1].url>> \in urls

\* main.py: select_best_paper, then the entry of notify_paper
\* bot.py: select_best_paper after the deduplicator, then the duplicate test
Select ==
    /\ pc = "select"
    /\ LET b == select_best_paper(papersByTag, tagPriority)
       IN  /\ best' = b
           /\ IF b = <<>> THEN Finish("no_selection")
              ELSE IF entry = "bot"
              THEN IF AlreadyNotified(b, announced) THEN Finish("skipped")
                   ELSE pc' = "parent" /\ outcome' = outcome
              ELSE IF ~env.slack_channel_id THEN Finish("no_channel")
              ELSE pc' = "dedup" /\ outcome' = outcome
    /\ UNCHANGED <<entry, run, tags, tagPriority, source, papersByTag, queried, channel,
                   announced, env, configFile, calls, history, fn, arg, ret>>

\* _get_latest_parent_paper_urls and, in notify_paper, the duplicate test
Dedup ==
    /\ pc = "dedup"
    /\ \E hist \in ChatResults, repl \in ChatResults :
         LET d == get_latest_parent_paper_urls(channel, hist, repl)
         IN  /\ (Len(d.reads) = 1 => repl = "ok")
             /\ announced' = d.urls
             /\ calls' = calls \o d.reads
             /\ IF d.raised THEN Finish("raised_dedup")
                ELSE IF entry = "bot" THEN pc' = "select" /\ outcome' = outcome
                ELSE IF AlreadyNotified(best, d.urls) THEN Finish("skipped")
                ELSE pc' = "parent" /\ outcome' = outcome
    /\ UNCHANGED <<entry, run, tags, tagPriority, source, papersByTag, queried, best,
                   channel, env, configFile, history, fn, arg, ret>>

\* the parent message with its failure ignored: the run goes on to the reply
PostParent_GoOn ==
    /\ pc = "parent"
    /\ \E res \in ChatResults :
         /\ calls' = Append(calls, Call("post", 0, res, ParentText,
                                        IF res = "ok" THEN NextTs(channel) ELSE 0))
         /\ channel' = IF res = "ok" THEN chat_postMessage(channel, ParentText, <<>>, 0) ELSE channel
         /\ IF res = "net_error" THEN Finish("raised_post")
            ELSE pc' = "send" /\ outcome' = outcome
    /\ UNCHANGED <<entry, run, tags, tagPriority, source, papersByTag, queried, best,
                   announced, env, configFile, history, fn, arg, ret>>

\* the parent message of notify_paper / notify_papers_to_slack
PostParent ==
    /\ pc = "parent"
    /\ \E res \in ChatResults :
         /\ calls' = Append(calls, Call("post", 0, res, ParentText,
                                        IF res = "ok" THEN NextTs(channel) ELSE 0))
         /\ IF res = "ok"
            THEN /\ channel' = chat_postMessage(channel, ParentText, <<>>, 0)
                 /\ pc' = "send" /\ outcome' = outcome
            ELSE /\ channel' = channel
                 /\ Finish(IF res = "api_error" THEN "parent_failed" ELSE "raised_post")
    /\ UNCHANGED <<entry, run, tags, tagPriority, source, papersByTag, queried, best,
                   announced, env, configFile, history, fn, arg, ret>>

\* thread_ts = parent_response['ts'] dropped: the reply goes to the channel
ParentTs_None(cs) == 0

\* thread_ts = parent_response['ts'], the timestamp returned for the parent
ParentTs(cs) == cs[Len(cs)].rts

\* _send_message_to_slack / send_message_to_slack and the return of the caller
SendMessage ==
    /\ pc = "send"
    /\ \E backend \in Backends, res \in ChatResults :
         \* the translation and the message are computed once
         \E tr \in {translate_and_summarize_paper(best[1], env, backend)} :
         \E msg \in {PrepareMessage(best[1], tr)} :
         LET thread_ts == ParentTs(calls)
             called == Provider(env) # "disabled"
             trCall == IF called
                       THEN <<Call("translate", 0, IF backend = BackendRaises THEN "raise" ELSE "ok", <<>>, 0)>>
                       ELSE <<>>
         IN  /\ (~called => backend = BackendRaises)
             /\ calls' = calls \o trCall
                         \o <<Call("post", thread_ts, res, msg.text,
                                   IF res = "ok" THEN NextTs(channel) ELSE 0)>>
             /\ channel' = IF res = "ok"
                           THEN chat_postMessage(channel, msg.text, msg.blocks, thread_ts)
                           ELSE channel
             /\ Finish(IF res = "net_error" THEN "raised_post" ELSE "completed")
    /\ UNCHANGED <<entry, run, tags, tagPriority, source, papersByTag, queried, best,
                   announced, env, configFile, history, fn, arg, ret>>

\* what is remembered of a finished run
RunSummary(o, cs, b) ==
    [outcome |-> o,
     chatOk |-> \A i \in 1..Len(cs) : cs[i].op # "translate" => cs[i].res = "ok",
     posts |-> Cardinality({i \in 1..Len(cs) : cs[i].op = "post" /\ cs[i].res = "ok"}),
     best |-> b]

\* the process has ended; the scheduler starts the next run
NextRun ==
    /\ pc = "done"
    /\ run < MaxRuns
    /\ run' = run + 1
    /\ history' = Append(history, RunSummary(outcome, calls, best))
    /\ pc' = "start"
    /\ tags' = <<>>
    /\ tagPriority' = <<>>
    /\ papersByTag' = NoPapers
    /\ queried' = <<>>
    /\ best' = <<>>
    /\ announced' = {}
    /\ calls' = <<>>
    /\ outcome' = ""
    /\ UNCHANGED <<entry, source, channel, env, configFile, fn, arg, ret>>

\* one run of the pipeline
Next ==
    \/ Startup
    \/ Fetch
    \/ Select
    \/ Dedup
    \/ PostParent
    \/ SendMessage

Spec == Init /\ [][Next]_vars

\* successive runs of the pipeline, one at a time, on the same channel
InitRuns ==
    /\ Init
    /\ entry \in {"services", "bot"}
    /\ env.slack_token /\ env.slack_channel_id /\ env.gemini_api_key
    /\ Len(LoadTags(configFile)) # 2
    \* every query is answered, and the channel starts with one thread at most
    /\ \A t \in Tags : source[t] # "raise"
    /\ Len(channel) <= 2

NextRuns ==
    \/ Startup
    \/ Fetch
    \/ Select
    \/ Dedup
    \/ PostParent
    \/ SendMessage
    \/ NextRun

SpecRuns == InitRuns /\ [][NextRuns]_vars

(***************************************************************************)
(* Pure functions are checked on inputs drawn in the initial state and     *)
(* applied by one action; the pipeline stands still meanwhile.             *)
(***************************************************************************)
PipelineOff ==
    /\ entry = "none"
    /\ env = [slack_token |-> FALSE, slack_channel_id |-> FALSE, ai_service |-> "",
              gemini_api_key |-> FALSE, openai_api_key |-> FALSE]
    /\ configFile = [exists |-> FALSE, tags |-> <<>>]
    /\ source = [t \in Tags |-> "empty"]
    /\ channel = <<>>
    /\ pc = "off"
    /\ run = 0
    /\ tags = <<>>
    /\ tagPriority = <<>>
    /\ papersByTag = NoPapers
    /\ queried = <<>>
    /\ best = <<>>
    /\ announced = {}
    /\ calls = <<>>
    /\ outcome = ""
    /\ history = <<>>

\* a second paper filed under tag t: the latest paper of another category,
\* cross-listed
CrossListed(t) ==
    paper_info(Entry(CASE t = "cs.AI" -> "cs.LG" [] t = "cs.LG" -> "cs.CL" [] t = "cs.CL" -> "cs.AI"), t)
Candidates(t) == SeqsUpTo({paper_info(Entry(t), t), CrossListed(t)}, MaxPapers)

\* every mapping from some of the tags to a list of candidates
Mappings ==
    UNION {{m \in [D -> UNION {Candidates(t) : t \in D}] : \A t \in D : m[t] \in Candidates(t)}
           : D \in SUBSET Tags}

InitSelect ==
    /\ PipelineOff
    /\ fn = ""
    /\ ret = <<>>
    /\ arg \in [papers_by_tag : Mappings, tag_priority : SeqsUpTo(Tags, MaxPrio)]

ApplySelect ==
    /\ fn = ""
    /\ fn' = "select_best_paper"
    /\ ret' = select_best_paper(arg.papers_by_tag, arg.tag_priority)
    /\ UNCHANGED <<arg, entry, pc, run, tags, tagPriority, source, papersByTag, queried,
                   best, channel, announced, env, configFile, calls, outcome, history>>

SpecSelect == InitSelect /\ [][ApplySelect]_vars

(***************************************************************************)
(* C1.  select_best_paper returns the first element of the candidate list  *)
(* of the earliest tag of the priority list whose list is present and      *)
(* non-empty; it returns None exactly when no tag of the priority list has *)
(* a non-empty list; a paper filed only under tags outside the priority    *)
(* list is never returned.                                                 *)
(***************************************************************************)
HasCandidates(m, t) == t \in DOMAIN m /\ m[t] # <<>>
PriorityHits(m, prio) == {i \in 1..Len(prio) : HasCandidates(m, prio[i])}
FiledUnder(m, url) == {t \in DOMAIN m : \E i \in 1..Len(m[t]) : m[t][i].url = url}

C1_SelectByPriority ==
    fn = "select_best_paper" =>
        LET m == arg.papers_by_tag
            prio == arg.tag_priority
            hits == PriorityHits(m, prio)
        IN  /\ (ret = <<>>) <=> (hits = {})
            /\ hits # {} => ret = <<m[prio[SetMin(hits)]][1]>>
            /\ \A url \in PaperUrls :
                 (FiledUnder(m, url) # {} /\ FiledUnder(m, url) \cap Range(prio) = {})
                 => (ret = <<>> \/ ret[1].url # url)

\* the second tag of the priority list is the one selected, its list has two
\* candidates, and a tag outside the priority list has papers too
C1_Witness ==
    /\ fn = "select_best_paper"
    /\ Len(arg.tag_priority) = 2
    /\ ~HasCandidates(arg.papers_by_tag, arg.tag_priority[1])
    /\ HasCandidates(arg.papers_by_tag, arg.tag_priority[2])
    /\ Len(arg.papers_by_tag[arg.tag_priority[2]]) = 2
    /\ ret = <<arg.papers_by_tag[arg.tag_priority[2]][1]>>
    /\ \E t \in DOMAIN arg.papers_by_tag \ Range(arg.tag_priority) : arg.papers_by_tag[t] # <<>>

(***************************************************************************)
(* C4.  fetch_arxiv_papers: the mapping has every configured tag as a key, *)
(* a tag whose query raised maps to the empty list, every tag is queried   *)
(* whatever happened to the tags before it, and nothing is raised.         *)
(***************************************************************************)
FetchDone ==
    \/ pc \in {"select", "dedup", "parent", "send"}
    \/ pc = "done" /\ outcome \notin {"raised_startup", "no_channel"}
    \/ pc = "done" /\ outcome = "no_channel" /\ entry # "bot"

C4_FetchTotal ==
    FetchDone =>
        /\ DOMAIN papersByTag = Range(tags)
        /\ \A t \in Range(tags) : source[t] = "raise" => papersByTag[t] = <<>>
        /\ queried = tags
        /\ outcome # "raised_fetch"

\* the first configured tag failed and a later one delivered its paper
C4_Witness ==
    /\ FetchDone
    /\ Len(tags) >= 2
    /\ source[tags[1]] = "raise"
    /\ \E i \in 2..Len(tags) : tags[i] # tags[1] /\ papersByTag[tags[i]] # <<>>

(***************************************************************************)
(* C2.  Two runs one after the other on an unchanged source, every chat    *)
(* read and write succeeding and nobody else writing to the channel: the   *)
(* first run posts the selected paper, the second finds its URL in the     *)
(* announced set and ends as a skipped duplicate without writing, so that  *)
(* both runs together leave one parent message and one reply.              *)
(***************************************************************************)
ChatOk(cs) == \A i \in 1..Len(cs) : cs[i].op # "translate" => cs[i].res = "ok"
Posts(cs) == SelectSeq(cs, LAMBDA c : c.op = "post")

C2_Idempotent ==
    (/\ run = 2 /\ pc = "done"
     /\ history[1].outcome = "completed" /\ history[1].chatOk
     /\ ChatOk(calls))
    => /\ outcome = "skipped"
       /\ best[1].url \in {u[1] : u \in announced}
       /\ Posts(calls) = <<>>
       /\ history[1].posts = 2

(***************************************************************************)
(* C3.  A run in which a tag of the priority list has a paper, the URL of  *)
(* the selected paper is not in the announced set and the chat writes      *)
(* succeed posts one parent message with the announcement marker and then  *)
(* one reply whose thread reference is the timestamp returned for the      *)
(* parent and which carries the URL of the paper of the highest-priority   *)
(* non-empty tag; the run makes no other chat write.                       *)
(***************************************************************************)
DedupReturned ==
    /\ \E i \in 1..Len(calls) : calls[i].op = "history"
    /\ \A i \in 1..Len(calls) : calls[i].op \in {"history", "replies"} => calls[i].res # "net_error"

NewThreadCase ==
    /\ pc = "done"
    /\ PriorityHits(papersByTag, tagPriority) # {}
    /\ DedupReturned
    /\ ~AlreadyNotified(select_best_paper(papersByTag, tagPriority), announced)
    /\ \A i \in 1..Len(calls) : calls[i].op = "post" => calls[i].res = "ok"

C3_NewThreadRun ==
    NewThreadCase =>
        LET p == Posts(calls)
            n == Len(channel)
            selected == papersByTag[tagPriority[SetMin(PriorityHits(papersByTag, tagPriority))]][1]
        IN  /\ outcome = "completed"
            /\ Len(p) = 2
            /\ "MARK" \in Range(p[1].text) /\ p[1].ts = 0
            /\ p[2].ts = p[1].rts /\ p[2].ts # 0
            /\ best = <<selected>>
            /\ selected.url \in Range(p[2].text)
            /\ n >= 2
            /\ channel[n - 1].ts = p[1].rts /\ "MARK" \in Range(channel[n - 1].text)
            /\ channel[n].ts = p[2].rts /\ channel[n].thread_ts = channel[n - 1].ts
            /\ selected.url \in Range(channel[n].text) \cap Range(channel[n].blocks)

\* the first tag of the priority list has no paper, the second one has, and
\* the channel already holds announcements of other papers
C3_Witness ==
    /\ NewThreadCase
    /\ outcome = "completed"
    /\ Len(tagPriority) = 2
    /\ PriorityHits(papersByTag, tagPriority) = {2}
    /\ announced # {}
    /\ Len(Posts(calls)) = 2

(***************************************************************************)
(* C5.  An error of any kind in the history call or in the replies call of *)
(* the deduplicator is caught: the announced set is empty, no error leaves *)
(* the deduplicator and the run goes on to the posting step.               *)
(***************************************************************************)
ReadFailed ==
    \E i \in 1..Len(calls) : calls[i].op \in {"history", "replies"} /\ calls[i].res # "ok"

C5_DedupFailsOpen ==
    ReadFailed => /\ announced = {}
                  /\ outcome # "raised_dedup"
                  /\ pc = "done" => Posts(calls) # <<>>

(***************************************************************************)
(* The deduplicator on channels of every shape up to a bound.              *)
(***************************************************************************)
MaxMsgs == 4
MaxText == 4

\* texts of the message at position i: an announcement header, a reply with
\* a labelled URL, a header that carries a labelled URL itself
StructTexts(i) ==
    {<<"MARK", "SP", "W">>,
     <<"URL:", "SP", IF i % 2 = 0 THEN "http://arxiv.org/abs/1" ELSE "http://arxiv.org/abs/2">>,
     <<"MARK", "SP", "URL:", "SP", "http://arxiv.org/abs/3">>}

\* a new message is top-level (0), or a reply to an earlier top-level message
ThreadRefs(c) == {0} \cup {c[j].ts : j \in {k \in 1..Len(c) : c[k].thread_ts = 0}}

RECURSIVE ChannelsOfLen(_)
ChannelsOfLen(n) ==
    IF n = 0 THEN {<<>>}
    ELSE UNION {{Append(c, Msg(n, t, r)) : t \in StructTexts(n), r \in ThreadRefs(c)}
                : c \in ChannelsOfLen(n - 1)}

\* the channel reports thread_ts = ts for a message that has replies
Normalise(c) ==
    [i \in 1..Len(c) |->
        IF \E j \in 1..Len(c) : c[j].thread_ts = c[i].ts
        THEN [c[i] EXCEPT !.thread_ts = c[i].ts] ELSE c[i]]

\* k messages of other talk, after the message with timestamp from
Chatter(from, k, thread_ts) == [i \in 1..k |-> Msg(from + i, <<"W">>, thread_ts)]

DedupChannels ==
    {Normalise(c) \o Chatter(Len(c), pad, 0) :
        c \in UNION {ChannelsOfLen(n) : n \in 0..MaxMsgs}, pad \in {0, HistoryLimit - 2}}

InitDedup ==
    /\ PipelineOff
    /\ fn = ""
    /\ ret = <<>>
    /\ arg \in [channel : DedupChannels]

ApplyDedup ==
    /\ fn = ""
    /\ fn' = "get_latest_parent_paper_urls"
    /\ \E hist \in ChatResults, repl \in ChatResults :
         LET d == get_latest_parent_paper_urls(arg.channel, hist, repl)
         IN  /\ (Len(d.reads) = 1 => repl = "ok")
             /\ ret' = d
    /\ UNCHANGED <<arg, entry, pc, run, tags, tagPriority, source, papersByTag, queried,
                   best, channel, announced, env, configFile, calls, outcome, history>>

SpecDedup == InitDedup /\ [][ApplyDedup]_vars

\* one thread: the header, a reply with the text under test, pad replies of
\* other talk and a last reply announcing paper 3
UrlAlphabet == {"URL:", "SP", "NL", "W", "http://arxiv.org/abs/1", "http://arxiv.org/abs/2", BareUrl}
LastReplyText == <<"URL:", "SP", "http://arxiv.org/abs/3">>
ThreadWith(text, pad) ==
    <<Msg(1, <<"MARK", "SP", "W">>, 1), Msg(2, text, 1)>>
    \o Chatter(2, pad, 1)
    \o <<Msg(3 + pad, LastReplyText, 1)>>

InitExtract ==
    /\ PipelineOff
    /\ fn = ""
    /\ ret = <<>>
    /\ arg \in [text : SeqsUpTo(UrlAlphabet, MaxText), pad : {0, RepliesLimit - 2}]

ApplyExtract ==
    /\ fn = ""
    /\ fn' = "extract"
    /\ ret' = get_latest_parent_paper_urls(ThreadWith(arg.text, arg.pad), "ok", "ok")
    /\ UNCHANGED <<arg, entry, pc, run, tags, tagPriority, source, papersByTag, queried,
                   best, channel, announced, env, configFile, calls, outcome, history>>

SpecExtract == InitExtract /\ [][ApplyExtract]_vars

(***************************************************************************)
(* C6.  Among the most recent 20 messages of the channel the candidates    *)
(* are the messages with the announcement marker that are not replies; the *)
(* thread read is the one of the candidate with the greatest timestamp;    *)
(* URLs come only from replies of that thread, not from older threads and  *)
(* not from the message whose timestamp is the parent's; without a         *)
(* candidate the result is empty and no replies are fetched.               *)
(***************************************************************************)
Recent(ch) == {i \in 1..Len(ch) : i > Len(ch) - 20}
ParentCandidates(ch) ==
    {i \in Recent(ch) : /\ \E k \in 1..Len(ch[i].text) : ch[i].text[k] = "MARK"
                        /\ (ch[i].thread_ts = 0 \/ ch[i].thread_ts = ch[i].ts)}
OccursIn(u, text) == \E a \in 1..Len(text) : SubSeq(text, a, a + Len(u) - 1) = u
RepliesRead(reads) == {i \in 1..Len(reads) : reads[i].op = "replies"}

C6_LatestThreadOnly ==
    (fn = "get_latest_parent_paper_urls" /\ ret.reads[1].res = "ok") =>
        LET ch == arg.channel
            cand == ParentCandidates(ch)
        IN  IF cand = {}
            THEN ret.urls = {} /\ RepliesRead(ret.reads) = {} /\ ~ret.raised
            ELSE LET P == CHOOSE i \in cand : \A j \in cand : ch[j].ts <= ch[i].ts
                 IN  /\ RepliesRead(ret.reads) = {2} /\ Len(ret.reads) = 2
                     /\ ret.reads[2].ts = ch[P].ts
                     /\ \A u \in ret.urls :
                          \E i \in 1..Len(ch) : /\ ch[i].thread_ts = ch[P].ts
                                                /\ ch[i].ts # ch[P].ts
                                                /\ OccursIn(u, ch[i].text)

\* an older thread announcing paper 2, a newer thread whose header carries
\* the URL of paper 3 and whose reply announces paper 1: only paper 1 is
\* returned
C6_Witness ==
    /\ fn = "get_latest_parent_paper_urls"
    /\ Len(arg.channel) = 4
    /\ Cardinality(ParentCandidates(arg.channel)) = 2
    /\ arg.channel[1].thread_ts = 1 /\ arg.channel[2].thread_ts = 1
    /\ arg.channel[3].text = <<"MARK", "SP", "URL:", "SP", "http://arxiv.org/abs/3">>
    /\ arg.channel[4].thread_ts = 3
    /\ ret.urls = {<<"http://arxiv.org/abs/1">>}
    /\ ret.reads[2].ts = 3

(***************************************************************************)
(* C7.  The set returned by the deduplicator is exactly the set of all     *)
(* http(s) URL tokens that follow a "URL:" label in the texts of the       *)
(* non-parent replies of the selected thread, every match being collected, *)
(* several in one reply included; a reply "URL: <url>" contributes <url>.  *)
(***************************************************************************)
\* the URL token that starts at position j of the text; the labelled URLs
\* of a text are the URLs with a host and a path that come after a label
UrlToken(text, j) ==
    LET last == CHOOSE e \in j..Len(text) :
                   /\ \A k \in (j + 1)..e : text[k] \notin {"SP", "NL"}
                   /\ (e = Len(text) \/ text[e + 1] \in {"SP", "NL"})
    IN  SubSeq(text, j, last)
LabelledUrls(text) ==
    {UrlToken(text, j) : j \in {k \in 1..Len(text) :
                                  HasPath(text[k]) /\ \E i \in 1..(k - 1) : text[i] = "URL:"}}

C7_AllLabelledUrls ==
    fn = "extract" =>
        LET returned == conversations_replies(ThreadWith(arg.text, arg.pad), 1, RepliesLimit)
        IN  ret.urls = UNION {LabelledUrls(returned[i].text) :
                                i \in {k \in 1..Len(returned) : returned[k].ts # 1}}

\* C7 as amended: each non-parent reply the replies call returned
\* contributes at most one URL.  If its text has a "URL:" label followed on
\* the same line by an http(s) URL with a host and a path, the reply
\* contributes the first http(s) URL token after the first such label;
\* otherwise it contributes nothing.  A reply "URL: <url>" contributes <url>.
SameLine(text, i, j) == \A k \in (i + 1)..(j - 1) : text[k] # "NL"
UsableLabels(text) ==
    {i \in 1..Len(text) : /\ text[i] = "URL:"
                          /\ \E j \in (i + 1)..Len(text) : HasPath(text[j]) /\ SameLine(text, i, j)}
Contribution(text) ==
    IF UsableLabels(text) = {} THEN {}
    ELSE LET i == SetMin(UsableLabels(text))
             j == SetMin({k \in (i + 1)..Len(text) : IsUrl(text[k])})
         IN  {UrlToken(text, j)}

C7_FirstLabelledUrlPerReply ==
    fn = "extract" =>
        LET ch == ThreadWith(arg.text, arg.pad)
            returned == conversations_replies(ch, 1, RepliesLimit)
        IN  /\ ret.urls = UNION {Contribution(returned[i].text) :
                                   i \in {k \in 1..Len(returned) : returned[k].ts # 1}}
            /\ arg.text = <<"URL:", "SP", "http://arxiv.org/abs/1">> /\ arg.pad = 0
               => ret.urls = {<<"http://arxiv.org/abs/1">>, <<"http://arxiv.org/abs/3">>}

\* a reply with two URLs after its label: a bare host first, then a paper
\* URL; the first one is what the reply contributes
C7_Witness ==
    /\ fn = "extract"
    /\ arg.text = <<"URL:", BareUrl, "SP", "http://arxiv.org/abs/2">>
    /\ arg.pad = 0
    /\ ret.urls = {<<BareUrl>>, <<"http://arxiv.org/abs/3">>}

(***************************************************************************)
(* The translation provider on configurations and backend answers of every *)
(* shape up to a bound.                                                    *)
(***************************************************************************)
MaxResp == 3

ResponseAlphabet == {"1.", "2.", "3.", "T:", "S:", "Q:", "SP", "NL", "W"}

\* answers built section by section, as the prompt asks for them
Section1 == {<<>>, <<"1.", "SP", "T:", "SP", "W">>, <<"1.", "T:", "W", "SP", "W">>, <<"1.", "SP", "T:">>}
Section2 == {<<>>, <<"2.", "SP", "S:", "SP", "W">>, <<"2.", "S:", "NL", "W", "NL", "W">>, <<"2.", "SP", "S:">>,
             <<"2.", "S:", "SP", "W", "NL", "NL", "W">>}
Section3 == {<<>>, <<"3.", "SP", "Q:", "NL", "W">>, <<"3.", "Q:">>, <<"3.", "SP", "Q:", "NL">>}
Separators == {<<>>, <<"NL">>, <<"NL", "NL">>, <<"SP">>}

Responses ==
    SeqsUpTo(ResponseAlphabet, MaxResp)
    \cup {a \o x \o b \o y \o c \o z :
            a \in Section1, x \in Separators, b \in Section2, y \in Separators,
            c \in Section3, z \in {<<>>, <<"NL">>}}

Providers ==
    {[ai_service |-> "gemini", gemini_api_key |-> TRUE, openai_api_key |-> FALSE],
     [ai_service |-> "gemini", gemini_api_key |-> FALSE, openai_api_key |-> TRUE],
     [ai_service |-> "openai", gemini_api_key |-> FALSE, openai_api_key |-> TRUE],
     [ai_service |-> "openai", gemini_api_key |-> TRUE, openai_api_key |-> FALSE],
     [ai_service |-> "", gemini_api_key |-> TRUE, openai_api_key |-> TRUE]}

\* the paper handed to the provider; its title is not a text the backend writes
TranslatedPaper == [paper_info(Entry("cs.AI"), "cs.AI") EXCEPT !.title = <<"x", "SP", "x">>]

InitTranslate ==
    /\ PipelineOff
    /\ fn = ""
    /\ ret = <<>>
    /\ arg \in [paper : {TranslatedPaper}, cfg : Providers,
                backend : Responses \cup {BackendRaises}]

ApplyTranslate ==
    /\ fn = ""
    /\ fn' = "translate_and_summarize_paper"
    /\ ret' = translate_and_summarize_paper(arg.paper, arg.cfg, arg.backend)
    /\ UNCHANGED <<arg, entry, pc, run, tags, tagPriority, source, papersByTag, queried,
                   best, channel, announced, env, configFile, calls, outcome, history>>

ApplyParse ==
    /\ fn = ""
    /\ arg.backend # BackendRaises
    /\ fn' = "_parse_ai_response"
    /\ ret' = _parse_ai_response(arg.backend, arg.paper)
    /\ UNCHANGED <<arg, entry, pc, run, tags, tagPriority, source, papersByTag, queried,
                   best, channel, announced, env, configFile, calls, outcome, history>>

NextTranslate ==
    \/ ApplyTranslate
    \/ ApplyParse

SpecTranslate == InitTranslate /\ [][NextTranslate]_vars

HeaderWithContent(t, num, name) ==
    \E i \in 1..Len(t) :
        /\ HeaderAt(t, i, num, name) # 0
        /\ At(t, HeaderAt(t, i, num, name) + 1 + RunLen(t, HeaderAt(t, i, num, name) + 1, "s")) = "W"

SectionsOneAndTwoOnly(t) ==
    /\ HeaderWithContent(t, "1.", "T:")
    /\ HeaderWithContent(t, "2.", "S:")
    /\ \A i \in 1..Len(t) : t[i] = "2." => i > 1 /\ t[i - 1] = "NL"
    /\ \A i \in 1..Len(t) : t[i] \notin {"3.", "Q:"}

C9_PartialSuccess ==
    (fn = "_parse_ai_response" /\ SectionsOneAndTwoOnly(arg.backend)) =>
        /\ ret.key_qa = QaFallback
        /\ ret.translated_title # arg.paper.title
        /\ ret.translated_summary # SummaryFallback
        /\ "W" \in Range(ret.translated_title) /\ "W" \in Range(ret.translated_summary)

(***************************************************************************)
(* C19.  For an answer in which a section header is present, the content   *)
(* _parse_ai_response extracts for that section is the whole text from     *)
(* just after the header up to the next section header, or up to the end   *)
(* of the text when no later header follows: a summary with a blank line   *)
(* between its paragraphs is returned in full, and a title or summary that *)
(* is the last thing in the answer is extracted, not replaced by its       *)
(* fallback.                                                               *)
(***************************************************************************)
SectionHeaders == <<<<"1.", "T:">>, <<"2.", "S:">>, <<"3.", "Q:">>>>

HeaderStarts(t, n) ==
    {i \in 1..Len(t) : HeaderAt(t, i, SectionHeaders[n][1], SectionHeaders[n][2]) # 0}

\* every header at most once, at the start of a line, in the order 1, 2, 3,
\* and no number or name token outside a header
WellFormedAnswer(t) ==
    /\ \A n \in 1..3 : Cardinality(HeaderStarts(t, n)) <= 1
    /\ \A n \in 1..3 : \A i \in 1..Len(t) :
          /\ t[i] = SectionHeaders[n][1] => i \in HeaderStarts(t, n)
          /\ t[i] = SectionHeaders[n][2] =>
                \E j \in HeaderStarts(t, n) :
                    HeaderAt(t, j, SectionHeaders[n][1], SectionHeaders[n][2]) = i
    /\ \A n \in 1..3 : \A i \in HeaderStarts(t, n) : i = 1 \/ t[i - 1] = "NL"
    /\ \A m, n \in 1..3 : \A i \in HeaderStarts(t, m), j \in HeaderStarts(t, n) :
          m < n => i < j

\* the text from just after the header of section n to the next header or
\* the end of the text, without the white space around it
SectionContent(t, n) ==
    LET i == CHOOSE x \in HeaderStarts(t, n) : TRUE
        h == HeaderAt(t, i, SectionHeaders[n][1], SectionHeaders[n][2])
        later == {j \in (h + 1)..Len(t) : \E m \in 1..3 : j \in HeaderStarts(t, m)}
        e == IF later = {} THEN Len(t) ELSE SetMin(later) - 1
    IN  strip(SubSeq(t, h + 1, e))

HasSection(t, n) == HeaderStarts(t, n) # {} /\ SectionContent(t, n) # <<>>

C19_SectionBoundaries ==
    (fn = "_parse_ai_response" /\ WellFormedAnswer(arg.backend)) =>
        /\ HasSection(arg.backend, 1) => ret.translated_title = SectionContent(arg.backend, 1)
        /\ HasSection(arg.backend, 2) => ret.translated_summary = SectionContent(arg.backend, 2)
        /\ HasSection(arg.backend, 3) => ret.key_qa = SectionContent(arg.backend, 3)

(***************************************************************************)
(* The formatter on texts of every shape up to a bound, and on texts made  *)
(* of two fragments of mathematical notation.                              *)
(***************************************************************************)
MaxFmt == 4

FormatAlphabet == {"x", "^", "2", "4", "$", "{", "}", "BS", "mathbf", "-"}

Fragments ==
    {<<"x", "^">>, <<"x", "^", "2">>, <<"^", "2">>, <<"$", "2", "$">>, <<"$", "x", "$">>,
     <<"$", "x", "^", "2", "$">>, <<"$", "{", "x", "}", "^", "2", "$">>,
     <<"BS", "mathbf", "{", "x", "}", "^", "2">>, <<"x", "-", "x">>, <<"x", "^", "4">>}

\* exponent notation with one and with two digits: plain, dollar-delimited,
\* braced and boldface
ExponentForms ==
    {<<"$", c, "^", d, "$">> : c \in {"x", "mathbf", "2"}, d \in Digits}
    \cup UNION {{<<"$", "x", "^", d1, d2, "$">>,
                 <<"$", "{", "x", "}", "^", d1, d2, "$">>,
                 <<"BS", "mathbf", "{", "x", "}", "^", d1, d2>>,
                 <<"x", "^", d1, d2>>} : d1 \in Digits, d2 \in Digits}

FormatInputs ==
    SeqsUpTo(FormatAlphabet, MaxFmt) \cup {a \o b : a \in Fragments, b \in Fragments}
    \cup ExponentForms

InitFormat ==
    /\ PipelineOff
    /\ fn = ""
    /\ ret = <<>>
    /\ arg \in FormatInputs

\* the formatter applied to a text, and applied again to its own output
ApplyFormat ==
    /\ fn = ""
    /\ fn' = "format_latex_for_slack"
    /\ ret' = [once |-> format_latex_for_slack(arg),
               twice |-> format_latex_for_slack(format_latex_for_slack(arg))]
    /\ UNCHANGED <<arg, entry, pc, run, tags, tagPriority, source, papersByTag, queried,
                   best, channel, announced, env, configFile, calls, outcome, history>>

SpecFormat == InitFormat /\ [][ApplyFormat]_vars

(***************************************************************************)
(* C10.  format_latex_for_slack is idempotent: formatting the output of    *)
(* the formatter again gives the same text, for every text made of word    *)
(* characters, '^', digits, '$', '{', '}', '\mathbf' and '-'.              *)
(***************************************************************************)
C10_FormatIdempotent ==
    fn = "format_latex_for_slack" => ret.twice = ret.once

(***************************************************************************)
(* C11.  For every word character c and every digit d the formatter turns  *)
(* c^d into c followed by the superscript of d, in plain text and inside a *)
(* dollar-delimited pair (whose delimiters are removed); for an exponent   *)
(* of several digits in the braced, boldface or dollar-delimited forms     *)
(* every digit is mapped by the same table.                                *)
(***************************************************************************)
IsPlainExponent(t) == Len(t) = 3 /\ IsWord(t[1]) /\ t[2] = "^" /\ IsDigit(t[3])
IsDollarExponent(t) ==
    Len(t) = 5 /\ t[1] = "$" /\ IsWord(t[2]) /\ t[3] = "^" /\ IsDigit(t[4]) /\ t[5] = "$"
IsLongExponent(t) ==
    \E d1 \in Digits, d2 \in Digits :
        t \in {<<"$", "x", "^", d1, d2, "$">>, <<"$", "{", "x", "}", "^", d1, d2, "$">>,
               <<"BS", "mathbf", "{", "x", "}", "^", d1, d2>>}
LastTwo(t) == IF t[Len(t)] = "$" THEN SubSeq(t, Len(t) - 2, Len(t) - 1)
              ELSE SubSeq(t, Len(t) - 1, Len(t))

C11_ExponentRule ==
    fn = "format_latex_for_slack" =>
        /\ IsPlainExponent(arg) => ret.once = <<arg[1], superscript_map(arg[3])>>
        /\ IsDollarExponent(arg) => ret.once = <<arg[2], superscript_map(arg[4])>>
        /\ IsLongExponent(arg)
           => ret.once = <<"x", superscript_map(LastTwo(arg)[1]), superscript_map(LastTwo(arg)[2])>>

(***************************************************************************)
(* C12.  Whenever the URL of the selected paper is in the announced set,   *)
(* the run ends without a chat write (no parent message, no reply) and     *)
(* without a call of the translation backend, and the messages of the      *)
(* channel are what they were before the run.                              *)
(***************************************************************************)
SelectedAnnounced == best # <<>> /\ \E u \in announced : u = <<best[1].url>>
Translations(cs) == SelectSeq(cs, LAMBDA c : c.op = "translate")

C12_SkipDuplicateWritesNothing ==
    SelectedAnnounced =>
        /\ pc = "done" /\ outcome = "skipped"
        /\ Posts(calls) = <<>>
        /\ Translations(calls) = <<>>
        /\ channel \in InitChannels

\* the selected paper is the one announced in the latest thread of the channel
C12_Witness ==
    /\ SelectedAnnounced
    /\ outcome = "skipped"
    /\ Len(channel) = 6
    /\ best[1].url = "http://arxiv.org/abs/3"
    /\ \E i \in 1..Len(calls) : calls[i].op = "replies" /\ calls[i].res = "ok"

(***************************************************************************)
(* C13.  If posting the parent message fails with an error of the chat     *)
(* API, the run ends without posting the reply, without a call of the      *)
(* translation backend and without the error leaving the notifier.         *)
(***************************************************************************)
ParentFailed ==
    \E i \in 1..Len(calls) :
        calls[i].op = "post" /\ calls[i].text = ParentText /\ calls[i].res = "api_error"

C13_ParentFailureEndsRun ==
    ParentFailed =>
        /\ pc = "done" /\ outcome = "parent_failed"
        /\ Len(Posts(calls)) = 1
        /\ Translations(calls) = <<>>
        /\ channel \in InitChannels

\* the deduplicator found other announcements, the parent post is refused
C13_Witness ==
    /\ ParentFailed
    /\ outcome = "parent_failed"
    /\ announced # {}
    /\ best # <<>>

(***************************************************************************)
(* The reply of a thread: _send_message_to_slack / send_message_to_slack   *)
(* on every paper, translation outcome and answer of the chat.             *)
(***************************************************************************)
\* _send_message_to_slack without its first try/except: an exception of the
\* translation or of the formatting leaves the function before the post
_send_message_to_slack_NoExcept(ch, paper, tr, res, thread_ts) ==
    IF tr.raised
    THEN [calls |-> <<>>, channel |-> ch, raised |-> TRUE]
    ELSE LET msg == PrepareMessage(paper, tr)
         IN  [calls |-> <<Call("post", thread_ts, res, msg.text,
                               IF res = "ok" THEN NextTs(ch) ELSE 0)>>,
              channel |-> IF res = "ok" THEN chat_postMessage(ch, msg.text, msg.blocks, thread_ts)
                          ELSE ch,
              raised |-> res = "net_error"]

\* _send_message_to_slack: the chat calls made, the channel afterwards and
\* whether an exception left the function
_send_message_to_slack(ch, paper, tr, res, thread_ts) ==
    Only({[calls |-> <<Call("post", thread_ts, res, msg.text,
                            IF res = "ok" THEN NextTs(ch) ELSE 0)>>,
           channel |-> IF res = "ok" THEN chat_postMessage(ch, msg.text, msg.blocks, thread_ts)
                       ELSE ch,
           raised |-> res = "net_error"] : msg \in {PrepareMessage(paper, tr)}})

\* papers with plain and with mathematical titles
SendPapers ==
    {paper_info(Entry(t), t) : t \in Tags}
    \cup {[paper_info(Entry("cs.AI"), "cs.AI") EXCEPT !.title = <<"$", "x", "^", "2", "$">>,
                                                     !.summary = <<"x", "^", "2", "SP", "W">>]}

\* the channel once the parent message has been created
ThreadStarted == chat_postMessage(<<>>, ParentText, <<>>, 0)

InitSend ==
    /\ PipelineOff
    /\ fn = ""
    /\ ret = <<>>
    /\ arg \in [paper : SendPapers, cfg : Providers, backend : Backends,
                tr_raises : BOOLEAN, res : ChatResults]

ApplySend ==
    /\ fn = ""
    /\ fn' = "_send_message_to_slack"
    /\ LET tr == IF arg.tr_raises THEN Raised
                 ELSE translate_and_summarize_paper(arg.paper, arg.cfg, arg.backend)
       IN  ret' = _send_message_to_slack(ThreadStarted, arg.paper, tr, arg.res, NextTs(<<>>))
    /\ UNCHANGED <<arg, entry, pc, run, tags, tagPriority, source, papersByTag, queried,
                   best, channel, announced, env, configFile, calls, outcome, history>>

SpecSend == InitSend /\ [][ApplySend]_vars

(***************************************************************************)
(* C14.  Once the parent message exists the reply post is attempted        *)
(* exactly once, whatever the translation step does (result, fallback      *)
(* result, or an exception of the translation or the formatting); after an *)
(* exception the reply is built from the original title and abstract and   *)
(* still carries the URL of the paper.                                     *)
(***************************************************************************)
C14_ReplyAlwaysAttempted ==
    fn = "_send_message_to_slack" =>
        LET p == Posts(ret.calls)
        IN  /\ Len(ret.calls) = 1 /\ Len(p) = 1
            /\ p[1].ts = 1
            /\ \E k \in 1..Len(p[1].text) : p[1].text[k] = arg.paper.url
            /\ arg.res = "ok" =>
                 LET m == ret.channel[Len(ret.channel)]
                 IN  /\ m.thread_ts = 1
                     /\ \E k \in 1..Len(m.blocks) : m.blocks[k] = arg.paper.url
                     /\ arg.tr_raises =>
                          /\ m.text = arg.paper.title \o <<"SP", "-", "SP", arg.paper.url>>
                          /\ OccursIn(format_latex_for_slack(arg.paper.title), m.blocks)
                          /\ OccursIn(format_latex_for_slack(arg.paper.summary), m.blocks)
                          /\ \A k \in 1..Len(m.blocks) : m.blocks[k] \notin {"L_ORIGINAL", "L_POINTS"}

\* the translation raises and the reply goes out with the original texts
C14_Witness ==
    /\ fn = "_send_message_to_slack"
    /\ arg.tr_raises
    /\ arg.res = "ok"
    /\ arg.paper.title = <<"$", "x", "^", "2", "$">>
    /\ Len(ret.channel) = 2
    /\ ret.channel[2].text = <<"$", "x", "^", "2", "$", "SP", "-", "SP", "http://arxiv.org/abs/1">>

(***************************************************************************)
(* C20.  Whatever the paper and the outcome of the translation, the reply  *)
(* that _send_message_to_slack posts is a message from whose text, as the  *)
(* replies read returns it, _get_latest_parent_paper_urls extracts exactly *)
(* the URL of the paper: the announced set the next run computes for the   *)
(* thread holds the URL of the paper posted in it.                         *)
(***************************************************************************)
C20_PostDedupRoundTrip ==
    (fn = "_send_message_to_slack" /\ arg.res = "ok") =>
        /\ ExtractUrl(ret.channel[Len(ret.channel)].text) = {<<arg.paper.url>>}
        /\ <<arg.paper.url>> \in get_latest_parent_paper_urls(ret.channel, "ok", "ok").urls

(***************************************************************************)
(* C15.  A run ends early only because the start-up validation failed (the *)
(* chat token is missing) or because a chat write failed: with the token   *)
(* set, the services are constructed and the run reaches the fetch step,   *)
(* and failures of the source, of the translation backend and of chat      *)
(* reads are turned into degraded results.                                 *)
(***************************************************************************)
EndedEarly ==
    pc = "done" /\ outcome \in {"raised_startup", "raised_fetch", "raised_dedup",
                                "raised_post", "parent_failed"}
ChatWriteFailed ==
    \E i \in 1..Len(calls) : calls[i].op = "post" /\ calls[i].res # "ok"

C15_EarlyTerminationPolicy ==
    /\ EndedEarly => \/ (outcome = "raised_startup" /\ ~env.slack_token)
                     \/ (outcome \in {"raised_post", "parent_failed"} /\ ChatWriteFailed)
    /\ (env.slack_token /\ entry # "bot" /\ pc = "done") => tags = queried

(***************************************************************************)
(* A run that follows an update of the tags in the same process:           *)
(* bot.update_tags before notify_papers_to_slack, Config.update_tags after *)
(* the services were built.                                                *)
(***************************************************************************)
InitUpdated ==
    /\ entry \in {"services", "bot"}
    /\ env \in {e \in Envs : e.slack_token /\ e.slack_channel_id /\ e.gemini_api_key}
    /\ configFile \in {[exists |-> FALSE, tags |-> <<>>], [exists |-> TRUE, tags |-> <<"cs.AI">>]}
    /\ source \in [Tags -> {"one", "empty"}]
    /\ channel \in {c \in InitChannels : Len(c) <= 2}
    /\ pc = "start"
    /\ run = 1
    /\ tags = <<>>
    /\ tagPriority = <<>>
    /\ papersByTag = NoPapers
    /\ queried = <<>>
    /\ best = <<>>
    /\ announced = {}
    /\ calls = <<>>
    /\ outcome = ""
    /\ history = <<>>
    /\ fn = ""
    /\ arg = <<>>
    /\ ret = <<>>

\* bot.update_tags rebinds the global TAGS and rewrites the file; the module
\* global TAG_PRIORITY keeps the list copied at start-up.
\* Config.update_tags rebinds config.tags and config.tag_priority and
\* rewrites the file; ArxivService keeps the two lists it took in __init__.
UpdateTags ==
    /\ pc = "fetch"
    /\ fn = ""
    /\ \E new_tags \in SeqsUpTo(Tags, MaxTags) :
         /\ tags' = IF entry = "bot" THEN new_tags ELSE tags
         /\ configFile' = [exists |-> TRUE, tags |-> new_tags]
         /\ arg' = new_tags
    /\ fn' = "update_tags"
    /\ UNCHANGED <<entry, pc, run, tagPriority, source, papersByTag, queried, best, channel,
                   announced, env, calls, outcome, history, ret>>

NextUpdated ==
    \/ Startup
    \/ UpdateTags
    \/ Fetch
    \/ Select
    \/ Dedup
    \/ PostParent
    \/ SendMessage

SpecUpdated == InitUpdated /\ [][NextUpdated]_vars

(***************************************************************************)
(* C21.  notify_paper returns True, and main reports the notification as   *)
(* completed, only if the reply with the paper was posted into the thread  *)
(* just created: when the reply post fails with a chat API error after the *)
(* parent was created, notify_paper returns False, so no run reports       *)
(* success and leaves a parent message without a reply.                    *)
(***************************************************************************)
C21_SuccessMeansReplied ==
    (entry # "bot" /\ pc = "done" /\ outcome = "completed") =>
        LET p == Posts(calls)
        IN  /\ Len(p) = 2
            /\ p[2].res = "ok"
            /\ channel[Len(channel)].thread_ts = p[1].rts
            /\ channel[Len(channel)].text = p[2].text

(***************************************************************************)
(* C16.  When every configured tag yields an empty list, or when the       *)
(* selection returns None, the run ends with no effect on the chat: no     *)
(* history read, no replies read, no parent post, no reply post and no     *)
(* translation call.                                                       *)
(***************************************************************************)
C16_NoCandidatesNoChat ==
    (pc = "done" /\ outcome \in {"no_papers", "no_selection"}) =>
        /\ calls = <<>>
        /\ channel \in InitChannels

(***************************************************************************)
(* C22.  While the priority list equals the configured tag list, as it     *)
(* does when start-up builds it as a copy, has_papers is true of the fetch *)
(* result exactly when select_best_paper returns a paper, and no run ends  *)
(* with "No suitable paper found after priority filtering".                *)
(***************************************************************************)
C22_HasPapersIffSelection ==
    (FetchDone /\ tags = tagPriority) =>
        /\ has_papers(papersByTag) <=> select_best_paper(papersByTag, tagPriority) # <<>>
        /\ outcome # "no_selection"

\* the first tag of the list has no paper, the second one has, and the run
\* selected it
C22_Witness ==
    /\ pc = "done"
    /\ tags = tagPriority
    /\ Len(tags) = 3
    /\ papersByTag[tags[1]] = <<>>
    /\ papersByTag[tags[2]] # <<>>
    /\ has_papers(papersByTag)
    /\ best = <<papersByTag[tags[2]][1]>>

(***************************************************************************)
(* C17.  After update_tags(new_tags) (bot.update_tags, Config.update_tags) *)
(* the list of tags used for fetching and the priority list used for       *)
(* selection both equal new_tags, element for element, and so does the     *)
(* persisted list; fetch never uses the new list while selection uses the  *)
(* old one.                                                                *)
(***************************************************************************)
C17_WholeListReplaced ==
    fn = "update_tags" =>
        /\ tags = arg
        /\ tagPriority = arg
        /\ LoadTags(configFile) = arg
        /\ pc = "done" /\ queried # <<>> => queried = tagPriority

(***************************************************************************)
(* The persisted tag configuration while it is rewritten.  save_config,    *)
(* bot.update_tags and Config.update_tags open the file with mode "w",     *)
(* which empties it, and json.dump fills it before the file is closed; a   *)
(* process that starts meanwhile reads the file with json.load.            *)
(*   pc = "idle"     the file holds configFile                             *)
(*   pc = "writing"  the file is open for writing and holds nothing yet    *)
(***************************************************************************)
MaxUpdates == 2

Writers == {"set_tags", "bot.update_tags", "Config.update_tags"}

\* json.load of a file that holds nothing raises json.JSONDecodeError
JSONDecodeError == <<"JSONDecodeError">>

InitTags ==
    /\ entry = "none"
    /\ env = [slack_token |-> FALSE, slack_channel_id |-> FALSE, ai_service |-> "",
              gemini_api_key |-> FALSE, openai_api_key |-> FALSE]
    /\ configFile \in {[exists |-> FALSE, tags |-> <<>>], [exists |-> TRUE, tags |-> <<"cs.AI">>]}
    /\ source = [t \in Tags |-> "empty"]
    /\ channel = <<>>
    /\ pc = "idle"
    /\ run = 0
    /\ tags = <<>>
    /\ tagPriority = <<>>
    /\ papersByTag = NoPapers
    /\ queried = <<>>
    /\ best = <<>>
    /\ announced = {}
    /\ calls = <<>>
    /\ outcome = ""
    /\ history = <<>>
    /\ fn = ""
    /\ arg = <<>>
    /\ ret = <<>>

\* open(CONFIG_FILE, "w"): the file exists and is empty
OpenForWriting ==
    /\ pc = "idle"
    /\ run < MaxUpdates
    /\ \E w \in Writers, new_tags \in SeqsUpTo(Tags, MaxTags) :
         /\ (w = "set_tags" => new_tags # <<>>)
         /\ fn' = w
         /\ arg' = [old |-> LoadTags(configFile), new |-> new_tags]
    /\ pc' = "writing"
    /\ UNCHANGED <<entry, run, tags, tagPriority, source, papersByTag, queried, best, channel,
                   announced, env, configFile, calls, outcome, history, ret>>

\* json.dump(config, f) and the close of the file
DumpAndClose ==
    /\ pc = "writing"
    /\ configFile' = [exists |-> TRUE, tags |-> arg.new]
    /\ pc' = "idle"
    /\ run' = run + 1
    /\ UNCHANGED <<entry, tags, tagPriority, source, papersByTag, queried, best, channel,
                   announced, env, calls, outcome, history, fn, arg, ret>>

\* _load_config / load_config of a process that starts now.  While the file is
\* open for writing the reader finds it empty or cut short (json.load raises)
\* until the dumped text has reached the file.
StartupRead ==
    /\ ret = <<>>
    /\ \E o \in IF pc = "writing" THEN {JSONDecodeError, arg.new}
                                   ELSE {LoadTags(configFile)} :
         ret' = [observed |-> o,
               writing |-> pc = "writing",
               old |-> IF pc = "writing" THEN arg.old ELSE LoadTags(configFile),
               new |-> IF pc = "writing" THEN arg.new ELSE LoadTags(configFile)]
    /\ UNCHANGED <<entry, pc, run, tags, tagPriority, source, papersByTag, queried, best,
                   channel, announced, env, configFile, calls, outcome, history, fn, arg>>

NextTags ==
    \/ OpenForWriting
    \/ DumpAndClose
    \/ StartupRead

SpecTags == InitTags /\ [][NextTags]_vars

(***************************************************************************)
(* C18.  A start-up that reads the tag configuration while an update is in *)
(* progress sees the complete old list or the complete new list: never an  *)
(* empty, truncated or partly written list, never a read error.            *)
(***************************************************************************)
C18_AtomicRewrite ==
    ret # <<>> => ret.observed \in {ret.old, ret.new}

=============================================================================
